---- MODULE Spec2Model ----
(***************************************************************************)
(* Model of the authentication service of server.js and api/auth/login.js. *)
(*                                                                         *)
(* The users table is a sequence of rows in insertion order; the serial id *)
(* of a row is its position.  E-mails, user ids, passwords and lookup keys *)
(* are strings, "" standing for every falsy value of a request field       *)
(* (undefined, null, "").  Names and pictures are sequences of one-letter  *)
(* strings, so that trim() and .length are computed; NULL is SQL NULL / JS *)
(* undefined and differs from every such sequence.                         *)
(*                                                                         *)
(* A lookup `id = $1 OR user_id = $1` compares the key with the decimal    *)
(* text of the id and with the user id, as the query is written.           *)
(***************************************************************************)
EXTENDS Integers, Sequences, FiniteSets, TLC

VARIABLES
    users,      \* rows of the users table, in insertion order
    reg,        \* the register requests in flight, one slot per request
    jsNow,      \* Date.now() of the node process, in ms
    dbNow,      \* NOW() of the store at the last statement that read it
    last,       \* the exchange completed last: request and response
    completed   \* e-mails for which a register request has answered 200

vars == <<users, reg, jsNow, dbNow, last, completed>>

\* ------------------------------------------------------------------ bounds
MaxUsers == 2
NProc == 2
MaxDbTime == 3
MaxNow == 2

Proc == 1..NProc

\* ---------------------------------------------------------- program values
NULL == <<"NULL">>
saltRounds == 10
MaxNameLen == 100

Blank(c) == c = " "

RECURSIVE TrimLeft(_)
TrimLeft(s) == IF s # <<>> /\ Blank(Head(s)) THEN TrimLeft(Tail(s)) ELSE s

RECURSIVE TrimRight(_)
TrimRight(s) ==
    IF s # <<>> /\ Blank(s[Len(s)]) THEN TrimRight(SubSeq(s, 1, Len(s) - 1)) ELSE s

\* String.prototype.trim
Trim(s) == TrimRight(TrimLeft(s))

\* JS truthiness of a name or picture field
Truthy(v) == v # NULL /\ v # <<>>

LongName(n) == [i \in 1..n |-> "x"]

\* ------------------------------------------------------------------ inputs
Emails == {"", "a@x.com", "b@x.com"}
Passwords == {"", "pw1", "pw2"}
UserIds == {"", "a@x.com", "2"}
Keys == {"", "a@x.com", "b@x.com", "1", "2"}
RegNames == {<<>>, <<"A">>}
PostNames == {NULL, <<>>, <<"B">>}
Pictures == {NULL, <<"p">>}
PutNames == {NULL, <<" ">>, <<" ", "B">>, <<"B">>, LongName(MaxNameLen + 1)}
Salts == {"s1"}

\* ------------------------------------------------------------------ bcrypt
\* bcrypt.hash(password, saltRounds) with the salt the library drew
Hash(password, salt) == <<"$2b$", saltRounds, salt, password>>

WellFormedHash(h) == Len(h) = 4 /\ h[1] = "$2b$"

\* A comparison that accepts any password for a well-formed hash
CompareAnyPassword(password, h) == WellFormedHash(h)

\* bcrypt.compare(password, hash) for a hash that is present: false for a
\* malformed one
Compare(password, h) == WellFormedHash(h) /\ h[4] = password

\* bcrypt.compare rejects ("data and hash arguments required") when the hash
\* argument is null
CompareThrows(h) == h = NULL

\* ------------------------------------------------------------- users table
Columns ==
    {"id", "user_id", "email", "name", "password_hash", "profile_picture",
     "wallet_address", "nft_tier", "created_at", "updated_at"}

Project(row, cols) == [c \in cols |-> row[c]]

Indexes(rows) == 1..Len(rows)

\* WHERE email = $1 OR user_id = $1
LoginMatch(rows, key) ==
    {i \in Indexes(rows) : rows[i].email = key \/ rows[i].user_id = key}

\* WHERE email = $1 OR user_id = $2
ExistingMatch(rows, email, user_id) ==
    {i \in Indexes(rows) : rows[i].email = email \/ rows[i].user_id = user_id}

\* WHERE id = $1 OR user_id = $1
IdMatch(rows, key) ==
    {i \in Indexes(rows) : ToString(rows[i].id) = key \/ rows[i].user_id = key}

\* `user_id || email`, `user_id || user_${Date.now()}`
Or(a, b) == IF a # "" THEN a ELSE b

GeneratedUserId(ms) == "user_" \o ToString(ms)

\* INSERT INTO users (user_id, email, name, password_hash, created_at,
\* updated_at) VALUES ($1, $2, $3, $4, NOW(), NOW())
InsertedRow(rows, user_id, email, name, password_hash, now) ==
    [id |-> Len(rows) + 1, user_id |-> user_id, email |-> email, name |-> name,
     password_hash |-> password_hash, profile_picture |-> NULL,
     wallet_address |-> NULL, nft_tier |-> NULL,
     created_at |-> now, updated_at |-> now]

\* An update that writes the parameter even when it is NULL
CoalesceOverwrites(param, column) == param

\* COALESCE($1, column)
Coalesce(param, column) == IF param # NULL THEN param ELSE column

\* An update that leaves updated_at alone
PostUpdatedRowStale(row, name, profile_picture, now) ==
    [row EXCEPT !.name = Coalesce(name, @),
                !.profile_picture = Coalesce(profile_picture, @)]

\* UPDATE users SET name = COALESCE($1, name), profile_picture =
\* COALESCE($2, profile_picture), updated_at = NOW() WHERE id = $3 OR user_id = $3
PostUpdatedRow(row, name, profile_picture, now) ==
    [row EXCEPT !.name = Coalesce(name, @),
                !.profile_picture = Coalesce(profile_picture, @),
                !.updated_at = now]

\* UPDATE users SET name = $1, updated_at = NOW() WHERE id = $2 OR user_id = $2
PutUpdatedRow(row, name, now) ==
    [row EXCEPT !.name = name, !.updated_at = now]

\* NOW() of a statement: later than that of every earlier statement
StoreNow == dbNow + 1

\* ------------------------------------------------------------ express app
\* The layers of the app in registration order.  cors, the body parsers and
\* the static mounts pass API requests on and are left out; the error
\* middleware takes four arguments and sees no request that raised no error.
Layers ==
    << [method |-> "POST", path |-> <<"api", "auth", "login">>,          handler |-> "login"],
       [method |-> "POST", path |-> <<"api", "auth", "register">>,       handler |-> "register"],
       [method |-> "POST", path |-> <<"api", "auth", "update-profile">>, handler |-> "postUpdateProfile"],
       [method |-> "GET",  path |-> <<"api", "health">>,                 handler |-> "health"],
       [method |-> "GET",  path |-> <<"api", "users", ":userId">>,       handler |-> "getUser"],
       [method |-> "GET",  path |-> <<>>,                                handler |-> "root"],
       [method |-> "USE",  path |-> <<"*">>,                             handler |-> "notFound"],
       [method |-> "PUT",  path |-> <<"api", "auth", "update-profile">>, handler |-> "putUpdateProfile"] >>

PathMatches(pattern, path) ==
    \/ pattern = <<"*">>
    \/ /\ Len(pattern) = Len(path)
       /\ \A i \in 1..Len(pattern) :
            \/ pattern[i] = path[i]
            \/ pattern[i] = ":userId" /\ path[i] # ""

LayerMatches(layer, method, path) ==
    /\ layer.method \in {method, "USE"}
    /\ PathMatches(layer.path, path)

\* The handler express runs for a request: that of the first matching layer
Dispatch(method, path) ==
    LET hits == {i \in 1..Len(Layers) : LayerMatches(Layers[i], method, path)}
        first == CHOOSE i \in hits : \A j \in hits : i <= j
    IN  Layers[first].handler

LoginPath == <<"api", "auth", "login">>
RegisterPath == <<"api", "auth", "register">>
UpdateProfilePath == <<"api", "auth", "update-profile">>
HealthPath == <<"api", "health">>
UserPath(key) == <<"api", "users", key>>

\* ---------------------------------------------------------------- responses
\* An error body without the success flag
FailureBare(message) == [message |-> message]

\* `{ success: false, message: ... }`
Failure(message) == [success |-> FALSE, message |-> message]

NoPre == [later |-> FALSE, unusedEmail |-> FALSE, fresh |-> FALSE]

NoExchange == <<>>

\* The exchange completed just before, kept when the new request repeats its
\* e-mail (a login after a register) or its target and name (an
\* update-profile after one of the same variant)
Before(op, via, req) ==
    IF \/ /\ op = "login" /\ last.op = "register"
          /\ last.req.email = req.email
       \/ /\ op = "updateProfile" /\ last.op = op /\ last.via = via
          /\ last.req.userId = req.userId /\ last.req.name = req.name
    THEN [last EXCEPT !.before = NoExchange]
    ELSE NoExchange

\* A completed exchange: the request (its method and path when it came
\* through the app of server.js), the status and the JSON body of the answer
Exchange(op, via, method, path, req, status, body) ==
    [op |-> op, via |-> via, method |-> method, path |-> path, req |-> req,
     status |-> status, body |-> body, pre |-> NoPre,
     before |-> Before(op, via, req)]

Idle == [pc |-> "idle", req |-> <<>>, hash |-> NULL, since |-> 0, pre |-> NoPre]

NoLast ==
    [op |-> "none", via |-> "none", method |-> "", path |-> <<>>, req |-> <<>>,
     status |-> 0, body |-> <<>>, pre |-> NoPre, before |-> NoExchange]

\* No request is in flight
Quiet == \A p \in Proc : reg[p].pc = "idle"

Init ==
    /\ users = <<>>
    /\ reg = [p \in Proc |-> Idle]
    /\ jsNow = 0
    /\ dbNow = 0
    /\ last = NoLast
    /\ completed = {}

\* -------------------------------------------------------------------- login
LoginRequests == [email : Keys, password : Passwords]

\* `!user.password_hash`
HashAbsent(h) == h = NULL \/ h = <<>>

\* server.js: columns of the login query, and the user object of the response
\* (`const { password_hash, reset_code, reset_code_expires, ...safeUser } = user`)
ServerLoginColumns == Columns

\* A user object that keeps every column
SafeUserKeepsHash(user) == user

SafeUser(user) ==
    Project(user, DOMAIN user \ {"password_hash", "reset_code", "reset_code_expires"})

\* `jwt_${Date.now()}_${user.id}`
DemoToken(ms, user) == <<"jwt", ms, user.id>>

\* server.js login, from the row taken as result.rows[0]
ServerLoginFor(user, req, ms) ==
    IF HashAbsent(user.password_hash)
    THEN [status |-> 401, body |-> Failure("Account not properly set up")]
    ELSE IF ~Compare(req.password, user.password_hash)
    THEN [status |-> 401, body |-> Failure("Invalid email or password")]
    ELSE [status |-> 200,
          body |-> [success |-> TRUE, token |-> DemoToken(ms, user),
                    user |-> SafeUser(user), message |-> "Login successful"]]

\* The responses server.js login can give: the query has no ORDER BY, so any
\* matching row can be result.rows[0]
ServerLoginOutcomes(rows, req, ms) ==
    IF req.email = "" \/ req.password = ""
    THEN {[status |-> 400, body |-> Failure("Email and password are required")]}
    ELSE IF LoginMatch(rows, req.email) = {}
    THEN {[status |-> 401, body |-> Failure("Invalid email or password")]}
    ELSE {ServerLoginFor(Project(rows[i], ServerLoginColumns), req, ms) :
            i \in LoginMatch(rows, req.email)}

LoginServer(reqs) ==
    /\ Dispatch("POST", LoginPath) = "login"
    /\ \E req \in reqs :
         \E out \in ServerLoginOutcomes(users, req, jsNow) :
            last' = Exchange("login", "app", "POST", LoginPath, req,
                             out.status, out.body)
    /\ UNCHANGED <<users, reg, jsNow, dbNow, completed>>

\* api/auth/login.js
RouterLoginColumns == {"id", "user_id", "email", "name", "password_hash"}

\* jwt.sign({userId, email, user_id}, JWT_SECRET, {expiresIn: '24h'})
SignedToken(user) ==
    [userId |-> user.id, email |-> user.email, user_id |-> user.user_id,
     expiresIn |-> "24h"]

\* `const { password_hash, ...userWithoutPassword } = user`
UserWithoutPassword(user) == Project(user, DOMAIN user \ {"password_hash"})

\* login.js, from the row taken as result.rows[0]; a rejected bcrypt.compare
\* lands in the catch block
RouterLoginFor(user, req) ==
    IF CompareThrows(user.password_hash)
    THEN [status |-> 500, body |-> Failure("Server error")]
    ELSE IF ~Compare(req.password, user.password_hash)
    THEN [status |-> 401, body |-> Failure("Invalid email or password")]
    ELSE [status |-> 200,
          body |-> [success |-> TRUE, token |-> SignedToken(user),
                    user |-> UserWithoutPassword(user)]]

RouterLoginOutcomes(rows, req) ==
    IF req.email = "" \/ req.password = ""
    THEN {[status |-> 400, body |-> Failure("Email and password are required")]}
    ELSE IF LoginMatch(rows, req.email) = {}
    THEN {[status |-> 401, body |-> Failure("Invalid email or password")]}
    ELSE {RouterLoginFor(Project(rows[i], RouterLoginColumns), req) :
            i \in LoginMatch(rows, req.email)}

LoginRouter(reqs) ==
    /\ \E req \in reqs :
         \E out \in RouterLoginOutcomes(users, req) :
            last' = Exchange("login", "router", "POST", <<"login">>, req,
                             out.status, out.body)
    /\ UNCHANGED <<users, reg, jsNow, dbNow, completed>>

\* ----------------------------------------------------------------- register
RegisterRequests ==
    [email : Emails, password : Passwords, name : RegNames, user_id : UserIds]

\* `!email || !password || !name`
RegisterFieldsMissing(req) ==
    req.email = "" \/ req.password = "" \/ ~Truthy(req.name)

\* An existence check on the user_id alone
ExistingUserByUserId(rows, req) ==
    {i \in Indexes(rows) : rows[i].user_id = Or(req.user_id, req.email)}

\* 'SELECT id FROM users WHERE email = $1 OR user_id = $2', [email, user_id || email]
ExistingUser(rows, req) ==
    ExistingMatch(rows, req.email, Or(req.user_id, req.email))

\* What held of the store and of the earlier answers when the request came in
PreOf(rows, done, req) ==
    [later |-> req.email \in done,
     unusedEmail |-> \A i \in Indexes(rows) : rows[i].email # req.email,
     fresh |-> \A i \in Indexes(rows) :
                 /\ rows[i].email # req.email
                 /\ rows[i].user_id # req.email
                 /\ rows[i].user_id # Or(req.user_id, req.email)]

\* Requests in flight that may still insert a row
Reserved ==
    Cardinality({p \in Proc : /\ reg[p].pc # "idle"
                              /\ ExistingUser(users, reg[p].req) = {}})

\* The bounds leave room for one more request that writes
Room ==
    /\ Len(users) + Reserved < MaxUsers
    /\ dbNow + Reserved < MaxDbTime
    /\ jsNow < MaxNow

RegisterExchange(slot, status, body) ==
    [Exchange("register", "app", "POST", RegisterPath, slot.req, status, body)
        EXCEPT !.pre = slot.pre]

\* The request arrives and runs to its first await
RegisterStart(p, reqs) ==
    /\ Dispatch("POST", RegisterPath) = "register"
    /\ reg[p].pc = "idle"
    /\ \A q \in Proc : q < p => reg[q].pc # "idle"
    /\ \E req \in reqs :
         LET slot == [pc |-> "query", req |-> req, hash |-> NULL, since |-> jsNow,
                      pre |-> PreOf(users, completed, req)]
         IN  IF RegisterFieldsMissing(req)
             THEN /\ last' = RegisterExchange(slot, 400,
                                Failure("Email, password, and name are required"))
                  /\ reg' = reg
             ELSE /\ ExistingUser(users, req) # {} \/ Room
                  /\ reg' = [reg EXCEPT ![p] = slot]
                  /\ last' = last
    /\ UNCHANGED <<users, jsNow, dbNow, completed>>

\* The existence query is answered
RegisterCheck(p) ==
    /\ reg[p].pc = "query"
    /\ IF ExistingUser(users, reg[p].req) # {}
       THEN /\ last' = RegisterExchange(reg[p], 409, Failure("User already exists"))
            /\ reg' = [reg EXCEPT ![p] = Idle]
       ELSE /\ reg' = [reg EXCEPT ![p].pc = "hash"]
            /\ last' = last
    /\ UNCHANGED <<users, jsNow, dbNow, completed>>

\* bcrypt.hash resolves: ten salt rounds take the thread pool more than a
\* millisecond, and hashes of different requests run side by side
RegisterHash(p) ==
    /\ reg[p].pc = "hash"
    /\ jsNow > reg[p].since
    /\ \E salt \in Salts :
         reg' = [reg EXCEPT ![p].pc = "insert",
                            ![p].hash = Hash(reg[p].req.password, salt)]
    /\ UNCHANGED <<users, jsNow, dbNow, last, completed>>

RegisterReturning == {"id", "user_id", "email", "name", "created_at"}

\* The insert runs and the handler answers
RegisterInsert(p) ==
    /\ reg[p].pc = "insert"
    /\ LET req == reg[p].req
           row == InsertedRow(users, Or(req.user_id, GeneratedUserId(jsNow)),
                              req.email, req.name, reg[p].hash, StoreNow)
       IN  /\ users' = Append(users, row)
           /\ last' = RegisterExchange(reg[p], 200,
                         [success |-> TRUE, message |-> "Registration successful",
                          user |-> Project(row, RegisterReturning)])
           /\ completed' = completed \cup {req.email}
    /\ dbNow' = StoreNow
    /\ reg' = [reg EXCEPT ![p] = Idle]
    /\ UNCHANGED jsNow

\* The clock of the node process moves on
Tick ==
    /\ jsNow < MaxNow
    /\ jsNow' = jsNow + 1
    /\ UNCHANGED <<users, reg, dbNow, last, completed>>

\* ----------------------------------------------------------- update-profile
PostUpdateRequests == [userId : Keys, name : PostNames, profile_picture : Pictures]

UpdateReturning ==
    {"id", "user_id", "email", "name", "profile_picture", "updated_at"}

\* The table after the UPDATE of the POST handler
PostUpdatedTable(rows, req, now) ==
    [i \in Indexes(rows) |->
        IF i \in IdMatch(rows, req.userId)
        THEN PostUpdatedRow(rows[i], req.name, req.profile_picture, now)
        ELSE rows[i]]

\* app.post('/api/auth/update-profile')
PostUpdateProfile(reqs) ==
    /\ Dispatch("POST", UpdateProfilePath) = "postUpdateProfile"
    /\ \E req \in reqs :
         LET done(status, body) ==
                 last' = Exchange("updateProfile", "app", "POST", UpdateProfilePath,
                                  req, status, body)
         IN  IF req.userId = ""
             THEN /\ done(400, Failure("User ID is required"))
                  /\ UNCHANGED <<users, dbNow>>
             ELSE IF IdMatch(users, req.userId) = {}
             THEN /\ done(404, Failure("User not found"))
                  /\ UNCHANGED <<users, dbNow>>
             ELSE /\ dbNow + Reserved < MaxDbTime
                  /\ users' = PostUpdatedTable(users, req, StoreNow)
                  /\ dbNow' = StoreNow
                  /\ \E i \in IdMatch(users, req.userId) :
                        done(200, [success |-> TRUE, message |-> "Profile updated",
                                   user |-> Project(users'[i], UpdateReturning)])
    /\ UNCHANGED <<reg, jsNow, completed>>

\* The Authorization header arrives as its words; `authHeader.split(' ')[1]`
BearerToken(words) == IF Len(words) >= 2 THEN words[2] ELSE ""

PutHeaders == {<<>>, <<"Bearer">>, <<"Bearer", "t">>}

PutUpdateRequests == [authorization : PutHeaders, name : PutNames, userId : Keys]

\* `!name || name.trim().length === 0`
PutNameMissing(name) == ~Truthy(name) \/ Len(Trim(name)) = 0

\* `name.length > 100`
PutNameTooLong(name) == Len(name) > MaxNameLen

PutUpdatedTable(rows, req, now) ==
    [i \in Indexes(rows) |->
        IF i \in IdMatch(rows, req.userId)
        THEN PutUpdatedRow(rows[i], Trim(req.name), now)
        ELSE rows[i]]

\* The handler given to app.put('/api/auth/update-profile'), when it is run
PutUpdateProfile(reqs) ==
    /\ \E req \in reqs :
         LET done(status, body) ==
                 last' = Exchange("updateProfile", "handler", "PUT", UpdateProfilePath,
                                  req, status, body)
         IN  IF BearerToken(req.authorization) = ""
             THEN /\ done(401, Failure("Authentication token required"))
                  /\ UNCHANGED <<users, dbNow>>
             ELSE IF PutNameMissing(req.name)
             THEN /\ done(400, Failure("Name is required"))
                  /\ UNCHANGED <<users, dbNow>>
             ELSE IF PutNameTooLong(req.name)
             THEN /\ done(400, Failure("Name must be 100 characters or less"))
                  /\ UNCHANGED <<users, dbNow>>
             ELSE IF IdMatch(users, req.userId) = {}
             THEN /\ done(404, Failure("User not found"))
                  /\ UNCHANGED <<users, dbNow>>
             ELSE /\ dbNow + Reserved < MaxDbTime
                  /\ users' = PutUpdatedTable(users, req, StoreNow)
                  /\ dbNow' = StoreNow
                  /\ \E i \in IdMatch(users, req.userId) :
                        done(200, [success |-> TRUE,
                                   message |-> "Profile updated successfully",
                                   user |-> Project(users'[i], UpdateReturning)])
    /\ UNCHANGED <<reg, jsNow, completed>>

\* -------------------------------------------------- get-user, health, 404
GetUserColumns ==
    {"id", "user_id", "email", "name", "profile_picture", "wallet_address",
     "nft_tier", "created_at"}

\* app.get('/api/users/:userId')
GetUser(keys) ==
    /\ \E key \in keys :
         /\ Dispatch("GET", UserPath(key)) = "getUser"
         /\ LET done(status, body) ==
                    last' = Exchange("getUser", "app", "GET", UserPath(key),
                                     [userId |-> key], status, body)
            IN  IF IdMatch(users, key) = {}
                THEN done(404, Failure("User not found"))
                ELSE \E i \in IdMatch(users, key) :
                        done(200, [success |-> TRUE,
                                   user |-> Project(users[i], GetUserColumns)])
    /\ UNCHANGED <<users, reg, jsNow, dbNow, completed>>

HealthyBody(ms) ==
    [status |-> "healthy", service |-> "KokKokKok Authentication API",
     timestamp |-> ms, database |-> "connected",
     endpoints |-> [login |-> "POST /api/auth/login",
                    register |-> "POST /api/auth/register",
                    updateProfile |-> "POST /api/auth/update-profile"]]

UnhealthyBody ==
    [status |-> "unhealthy", database |-> "disconnected", error |-> "error.message"]

\* app.get('/api/health'), the store answering
Health ==
    /\ Dispatch("GET", HealthPath) = "health"
    /\ last' = Exchange("health", "app", "GET", HealthPath, <<>>, 200,
                        HealthyBody(jsNow))
    /\ UNCHANGED <<users, reg, jsNow, dbNow, completed>>

\* Requests that may reach the 404 handler: an unknown path, and the PUT
\* variant of update-profile with its bodies
OtherRequests(puts) ==
    {[method |-> "GET", path |-> <<"api", "nope">>, body |-> <<>>]}
    \cup {[method |-> "PUT", path |-> UpdateProfilePath, body |-> b] : b \in puts}

\* app.use('*', ...)
NotFound(requests) ==
    /\ \E r \in requests :
         /\ Dispatch(r.method, r.path) = "notFound"
         /\ last' = Exchange("notFound", "app", r.method, r.path, r.body, 404,
                             [success |-> FALSE, message |-> "Endpoint not found",
                              path |-> r.path])
    /\ UNCHANGED <<users, reg, jsNow, dbNow, completed>>

\* ------------------------------------------------------------ store failures
\* A rejected pool.query (or bcrypt call) lands in the handler's catch block.
LoginServerFault(reqs) ==
    /\ Dispatch("POST", LoginPath) = "login"
    /\ \E req \in reqs :
         /\ ~(req.email = "" \/ req.password = "")
         /\ last' = Exchange("login", "app", "POST", LoginPath, req, 500,
                             Failure("Server error during authentication"))
    /\ UNCHANGED <<users, reg, jsNow, dbNow, completed>>

LoginRouterFault(reqs) ==
    /\ \E req \in reqs :
         /\ ~(req.email = "" \/ req.password = "")
         /\ last' = Exchange("login", "router", "POST", <<"login">>, req, 500,
                             Failure("Server error"))
    /\ UNCHANGED <<users, reg, jsNow, dbNow, completed>>

\* The awaited query or hash of a register request in flight rejects
RegisterFault(p) ==
    /\ reg[p].pc # "idle"
    /\ last' = RegisterExchange(reg[p], 500, Failure("Registration failed"))
    /\ reg' = [reg EXCEPT ![p] = Idle]
    /\ UNCHANGED <<users, jsNow, dbNow, completed>>

PostUpdateFault(reqs) ==
    /\ Dispatch("POST", UpdateProfilePath) = "postUpdateProfile"
    /\ \E req \in reqs :
         /\ req.userId # ""
         /\ last' = Exchange("updateProfile", "app", "POST", UpdateProfilePath,
                             req, 500, Failure("Update failed"))
    /\ UNCHANGED <<users, reg, jsNow, dbNow, completed>>

PutUpdateFault(reqs) ==
    /\ \E req \in reqs :
         /\ BearerToken(req.authorization) # ""
         /\ ~PutNameMissing(req.name)
         /\ ~PutNameTooLong(req.name)
         /\ last' = Exchange("updateProfile", "handler", "PUT", UpdateProfilePath,
                             req, 500, Failure("Server error updating profile"))
    /\ UNCHANGED <<users, reg, jsNow, dbNow, completed>>

GetUserFault(keys) ==
    /\ \E key \in keys :
         /\ Dispatch("GET", UserPath(key)) = "getUser"
         /\ last' = Exchange("getUser", "app", "GET", UserPath(key),
                             [userId |-> key], 500, Failure("Server error"))
    /\ UNCHANGED <<users, reg, jsNow, dbNow, completed>>

HealthFault ==
    /\ Dispatch("GET", HealthPath) = "health"
    /\ last' = Exchange("health", "app", "GET", HealthPath, <<>>, 500, UnhealthyBody)
    /\ UNCHANGED <<users, reg, jsNow, dbNow, completed>>

\* ----------------------------------------------------------- specifications
\* The whole service: requests arrive at any time and interleave at the
\* awaits of register; the store answers every query.
Next ==
    \/ LoginServer(LoginRequests)
    \/ LoginRouter(LoginRequests)
    \/ \E p \in Proc : RegisterStart(p, RegisterRequests)
    \/ \E p \in Proc : RegisterCheck(p)
    \/ \E p \in Proc : RegisterHash(p)
    \/ \E p \in Proc : RegisterInsert(p)
    \/ PostUpdateProfile(PostUpdateRequests)
    \/ PutUpdateProfile(PutUpdateRequests)
    \/ GetUser(Keys)
    \/ Health
    \/ NotFound(OtherRequests(PutUpdateRequests))
    \/ Tick

Spec == Init /\ [][Next]_vars

\* Concurrent register requests alone.
RaceRegisters == {r \in RegisterRequests : r.password = "pw1"}

RaceNext ==
    \/ \E p \in Proc : RegisterStart(p, RaceRegisters)
    \/ \E p \in Proc : RegisterCheck(p)
    \/ \E p \in Proc : RegisterHash(p)
    \/ \E p \in Proc : RegisterInsert(p)
    \/ Tick

RaceSpec == Init /\ [][RaceNext]_vars

\* Register and login requests, one after the other: a request arrives when
\* none is in flight.
AuthLogins == {r \in LoginRequests : r.email \in Emails}

AuthRegisters == {r \in RegisterRequests : r.user_id # "2"}

AuthNext ==
    \/ Quiet /\ LoginServer(AuthLogins)
    \/ Quiet /\ LoginRouter(AuthLogins)
    \/ Quiet /\ \E p \in Proc : RegisterStart(p, AuthRegisters)
    \/ \E p \in Proc : RegisterCheck(p)
    \/ \E p \in Proc : RegisterHash(p)
    \/ \E p \in Proc : RegisterInsert(p)
    \/ Tick

AuthSpec == Init /\ [][AuthNext]_vars

\* Profile requests after registrations, one after the other.  The PUT
\* handler is run as a handler; the PUT request is also sent through the app.
IdKeys == {"", "1", "2"}

ProfileRegisters ==
    {r \in RegisterRequests :
        r.password = "pw1" /\ r.name = <<"A">> /\ r.user_id \in {"", "2"}}

ProfilePosts == {r \in PostUpdateRequests : r.userId \in IdKeys}

ProfilePuts == {r \in PutUpdateRequests : r.userId \in {"1", "2"}}

ProfileNext ==
    \/ Quiet /\ \E p \in Proc : RegisterStart(p, ProfileRegisters)
    \/ \E p \in Proc : RegisterCheck(p)
    \/ \E p \in Proc : RegisterHash(p)
    \/ \E p \in Proc : RegisterInsert(p)
    \/ Quiet /\ PostUpdateProfile(ProfilePosts)
    \/ Quiet /\ PutUpdateProfile(ProfilePuts)
    \/ Quiet /\ GetUser(IdKeys)
    \/ Quiet /\ NotFound(OtherRequests(ProfilePuts))
    \/ Tick

ProfileSpec == Init /\ [][ProfileNext]_vars

\* Logins against a table that already holds an account without a password
\* hash, a row this service did not insert.
LegacyRow ==
    [InsertedRow(<<>>, "wallet_1", "b@x.com", <<"W">>, NULL, 1)
        EXCEPT !.wallet_address = <<"0", "x">>]

InitLegacy ==
    /\ users = <<LegacyRow>>
    /\ reg = [p \in Proc |-> Idle]
    /\ jsNow = 0
    /\ dbNow = 1
    /\ last = NoLast
    /\ completed = {}

LegacySpec == InitLegacy /\ [][AuthNext]_vars

\* Every endpoint, one request after the other, with a store that may fail.
FaultRegisters ==
    {r \in RegisterRequests :
        r.email # "b@x.com" /\ r.password = "pw1" /\ r.name = <<"A">> /\ r.user_id = ""}

FaultLogins == {r \in LoginRequests : r.email \in {"", "a@x.com"} /\ r.password # ""}

FaultPosts ==
    {r \in PostUpdateRequests :
        r.userId \in IdKeys /\ r.name = <<"B">> /\ r.profile_picture = NULL}

FaultPuts ==
    {r \in PutUpdateRequests :
        /\ r.userId \in {"1", "2"}
        /\ r.authorization # <<"Bearer">>
        /\ r.name \in {NULL, <<"B">>, LongName(MaxNameLen + 1)}}

FaultNext ==
    \/ Quiet /\ LoginServer(FaultLogins)
    \/ Quiet /\ LoginRouter(FaultLogins)
    \/ Quiet /\ \E p \in Proc : RegisterStart(p, FaultRegisters)
    \/ \E p \in Proc : RegisterCheck(p)
    \/ \E p \in Proc : RegisterHash(p)
    \/ \E p \in Proc : RegisterInsert(p)
    \/ Quiet /\ PostUpdateProfile(FaultPosts)
    \/ Quiet /\ PutUpdateProfile(FaultPuts)
    \/ Quiet /\ GetUser({"1", "2"})
    \/ Quiet /\ Health
    \/ Quiet /\ NotFound(OtherRequests(FaultPuts))
    \/ Tick
    \/ Quiet /\ LoginServerFault(FaultLogins)
    \/ Quiet /\ LoginRouterFault(FaultLogins)
    \/ \E p \in Proc : RegisterFault(p)
    \/ Quiet /\ PostUpdateFault(FaultPosts)
    \/ Quiet /\ PutUpdateFault(FaultPuts)
    \/ Quiet /\ GetUserFault({"1", "2"})
    \/ Quiet /\ HealthFault

FaultSpec == Init /\ [][FaultNext]_vars

\* -------------------------------------------------------------------- claims
\* The password an account was registered with, as the stored hash records it
PasswordOf(row) == row.password_hash[4]

\* The row a token was issued for
TokenSubject(e) == IF e.via = "app" THEN e.body.token[3] ELSE e.body.token.userId

Present(e) == e.req.email # "" /\ e.req.password # "" /\ Truthy(e.req.name)

\* C4: no two rows of the users table share an e-mail, and no two share a
\* user_id, whatever the interleaving of the register requests.
C4_NoSharedEmailOrUserId ==
    \A i, j \in Indexes(users) :
        i # j => users[i].email # users[j].email /\ users[i].user_id # users[j].user_id

\* C5 as stated: once a register request for an e-mail has answered 200, every
\* register request that arrives later with that e-mail is answered 409 "User
\* already exists", whatever else it carries.
C5_LaterRegisterAlways409 ==
    last.op = "register" /\ last.pre.later
        => last.status = 409 /\ last.body = Failure("User already exists")

\* C5 amended: once a register request for an e-mail has answered 200, every
\* register request that arrives later with that e-mail and with a non-empty
\* password and name is answered 409 "User already exists" and leaves the
\* table as it was; one without a password or a name is answered 400 and
\* leaves the table as it was.
C5_LaterRegisterConflicts ==
    [][\A p \in Proc :
        /\ (reg[p].pc # "idle" /\ reg'[p].pc = "idle" /\ reg[p].pre.later
              => /\ last'.op = "register" /\ last'.req = reg[p].req
                 /\ last'.status = 409
                 /\ last'.body = Failure("User already exists")
                 /\ users' = users)
        /\ (last' # last /\ last'.op = "register" /\ last'.pre.later
              => /\ last'.status = IF Present(last') THEN 409 ELSE 400
                 /\ users' = users)]_vars

\* A later request with the e-mail of a completed registration was turned away
C5_Witness ==
    /\ last.op = "register" /\ last.pre.later /\ last.status = 409
    /\ \E i \in Indexes(users) : users[i].email = last.req.email
    /\ \E p \in Proc : reg[p].pc # "idle"

\* Every value a lookup can be given that matches anything
MatchKeys ==
    Keys \cup {users[i].email : i \in Indexes(users)}
         \cup {users[i].user_id : i \in Indexes(users)}

\* C7: whatever registrations have run, a lookup by match key matches at most
\* one row, for the login query (email or user_id) and for the get-user and
\* update-profile query (id or user_id).
C7_AtMostOneMatch ==
    \A key \in MatchKeys :
        /\ Cardinality(LoginMatch(users, key)) <= 1
        /\ Cardinality(IdMatch(users, key)) <= 1

\* A login answered 200 with a token for the row the register before it
\* inserted, and with a user object without password_hash
LoginSucceedsAfterRegister(e) ==
    /\ e.before.status = 200
    /\ e.status = 200
    /\ e.body.success = TRUE
    /\ "token" \in DOMAIN e.body
    /\ TokenSubject(e) = e.before.body.user.id
    /\ e.body.user.id = e.before.body.user.id
    /\ "password_hash" \notin DOMAIN e.body.user

\* A login that directly follows a register request carrying e-mail, password
\* and name, with the same e-mail and password
LoginAfterRegister(e) ==
    /\ e.op = "login"
    /\ e.before # NoExchange
    /\ Present(e.before)
    /\ e.before.req.password = e.req.password

\* C1 as stated: after any requests, a register whose e-mail is the e-mail of
\* no existing row, followed by a login with the same e-mail and password,
\* ends in a 200 login with a token for the new row and no password_hash.
C1_RegisterThenLoginUnusedEmail ==
    LoginAfterRegister(last) /\ last.before.pre.unusedEmail
        => LoginSucceedsAfterRegister(last)

\* C1 amended: the same, for a register whose e-mail is neither the e-mail nor
\* the user_id of an existing row and whose user_id, when given, is the
\* user_id of no existing row.
C1_RegisterThenLoginFresh ==
    LoginAfterRegister(last) /\ last.before.pre.fresh
        => LoginSucceedsAfterRegister(last)

\* A second account was registered and then logged in, by either handler
C1_Witness ==
    /\ LoginAfterRegister(last) /\ last.before.pre.fresh
    /\ last.status = 200 /\ last.via = "router"
    /\ Len(users) = 2 /\ last.body.user.id = 2

\* This step answers a login request
LoginStep == last' # last /\ last'.op = "login"

WrongPasswordAnswer(e) ==
    /\ e.status = 401
    /\ e.body = Failure("Invalid email or password")
    /\ "token" \notin DOMAIN e.body

\* C2 as stated: a login whose key identifies an existing account and whose
\* password is not that account's password is answered 401 "Invalid email or
\* password" without a token, by both handlers.
C2_WrongPasswordOfAnAccount ==
    [][LoginStep
        /\ (\E i \in LoginMatch(users, last'.req.email) :
                PasswordOf(users[i]) # last'.req.password)
        => WrongPasswordAnswer(last')]_vars

\* C2 amended: a login with a non-empty password whose key identifies an
\* existing account, the password being that of no account the key
\* identifies, is answered 401 "Invalid email or password" without a token,
\* by both handlers.
C2_WrongPasswordDenied ==
    [][LoginStep
        /\ last'.req.password # ""
        /\ LoginMatch(users, last'.req.email) # {}
        /\ (\A i \in LoginMatch(users, last'.req.email) :
                PasswordOf(users[i]) # last'.req.password)
        => WrongPasswordAnswer(last')]_vars

\* A login right after the registration of its e-mail, with another password
C2_Witness ==
    /\ last.op = "login" /\ last.before # NoExchange
    /\ last.before.status = 200
    /\ last.req.password \notin {"", last.before.req.password}
    /\ last.status = 401

\* C8: a login with e-mail and password that matches a row without a
\* password hash is denied with 401 and no token, never with 500, by both
\* handlers.
C8_AbsentHashDenied ==
    [][LoginStep
        /\ last'.req.email # "" /\ last'.req.password # ""
        /\ (\E i \in LoginMatch(users, last'.req.email) :
                HashAbsent(users[i].password_hash))
        => last'.status = 401 /\ "token" \notin DOMAIN last'.body]_vars

\* The body of an answer has the shape its status calls for
Shaped(e) ==
    /\ e.status >= 400 =>
          /\ "success" \in DOMAIN e.body /\ e.body.success = FALSE
          /\ "message" \in DOMAIN e.body
    /\ e.status \in 200..299 =>
          "success" \in DOMAIN e.body /\ e.body.success = TRUE

\* C9 as stated: every answer of every endpoint with a status of 400 or more
\* is {success: false, message, ...}, and every 2xx answer has success true,
\* the store-failure answers included.
C9_EveryResponseShaped == last.op # "none" => Shaped(last)

\* C9 amended: the same for every endpoint but the health check, whose
\* answers (200 and 500) carry status and database and no success field.
C9_ResponsesShapedButHealth ==
    /\ last.op \notin {"none", "health"} => Shaped(last)
    /\ last.op = "health" =>
          /\ "success" \notin DOMAIN last.body
          /\ last.body.status = (IF last.status = 200 THEN "healthy" ELSE "unhealthy")

\* A register request failed at the store after an account existed
C9_Witness ==
    /\ last.op = "register" /\ last.status = 500
    /\ last.body = Failure("Registration failed")
    /\ Len(users) = 1

\* The stored names are those of before the step
NamesUnchanged ==
    /\ Len(users') = Len(users)
    /\ \A i \in Indexes(users) : users'[i].name = users[i].name

\* C3: a PUT /api/auth/update-profile request sent to the app with a bearer
\* token and a name of more than 100 characters is answered 400, and no
\* stored name changes.
C3_LongNamePutRejected ==
    [][last' # last
        /\ last'.via = "app" /\ last'.method = "PUT"
        /\ last'.path = UpdateProfilePath
        /\ BearerToken(last'.req.authorization) # ""
        /\ Truthy(last'.req.name) /\ Len(last'.req.name) > MaxNameLen
        => last'.status = 400 /\ NamesUnchanged]_vars

\* This step answers an update-profile request with 200
UpdateStep == last' # last /\ last'.op = "updateProfile" /\ last'.status = 200

\* C6: when update-profile (POST, or the PUT handler) succeeds twice in a row
\* with the same userId and name, the second call leaves every stored name of
\* the target as the first call left it and stores a strictly greater
\* updated_at.
C6_RepeatedUpdate ==
    [][UpdateStep /\ last'.before # NoExchange /\ last'.before.status = 200
        => /\ IdMatch(users, last'.req.userId) # {}
           /\ \A i \in IdMatch(users, last'.req.userId) :
                /\ users'[i].name = users[i].name
                /\ users'[i].updated_at > users[i].updated_at]_vars

\* The POST variant has succeeded twice in a row with one userId and name
C6_Witness ==
    /\ last.op = "updateProfile" /\ last.status = 200 /\ last.via = "app"
    /\ last.req.name = <<"B">>
    /\ last.before # NoExchange /\ last.before.status = 200
    /\ last.body.user.updated_at > last.before.body.user.updated_at

\* This step answers a POST update-profile request
PostStep == last' # last /\ last'.op = "updateProfile" /\ last'.via = "app"

Supplied(v) == v # NULL

\* What the POST update may do to the rows it matches, and to the others
PostFrame(req) ==
    /\ Len(users') = Len(users)
    /\ \A i \in Indexes(users) :
         IF i \in IdMatch(users, req.userId)
         THEN /\ users'[i].name =
                    (IF Supplied(req.name) THEN req.name ELSE users[i].name)
              /\ users'[i].profile_picture =
                    (IF Supplied(req.profile_picture) THEN req.profile_picture
                     ELSE users[i].profile_picture)
              /\ users'[i].updated_at > users[i].updated_at
              /\ \A c \in Columns \ {"name", "profile_picture", "updated_at"} :
                    users'[i][c] = users[i][c]
         ELSE users'[i] = users[i]

\* C10 as stated: a POST update-profile that matches a row changes only the
\* supplied fields among name and profile_picture and sets a newer
\* updated_at, in the matching rows alone; when no row matches it is
\* answered 404 and the table is unchanged.
C10_PostUpdateFrameOr404 ==
    [][PostStep
        => IF IdMatch(users, last'.req.userId) # {}
           THEN last'.status = 200 /\ PostFrame(last'.req)
           ELSE last'.status = 404 /\ users' = users]_vars

\* C10 amended: the same, the answer to a request that matches no row being
\* 404 when it carries a userId and 400 when it carries none.
C10_PostUpdateFrame ==
    [][PostStep
        => IF IdMatch(users, last'.req.userId) # {}
           THEN last'.status = 200 /\ PostFrame(last'.req)
           ELSE /\ last'.status = IF last'.req.userId # "" THEN 404 ELSE 400
                /\ users' = users]_vars

\* A picture was set with the name omitted, a second row standing by
C10_Witness ==
    /\ last.op = "updateProfile" /\ last.via = "app" /\ last.status = 200
    /\ last.req.name = NULL /\ last.req.profile_picture = <<"p">>
    /\ Len(users) = 2
    /\ Cardinality(IdMatch(users, last.req.userId)) = 1
    /\ \E i \in Indexes(users) :
          users[i].profile_picture = <<"p">> /\ users[i].name = <<"A">>

====
